---------------------------- MODULE Spec2Model ----------------------------
(***************************************************************************)
(* A model of the leveled console logger of package logging: the level     *)
(* registry and SetMinLevel, Field (NewField / Add / Sprint), the message  *)
(* composers sprint and sprintf, the caller resolution and line formatting *)
(* of printf, and the logger facade with its depth-parameterized methods.  *)
(*                                                                         *)
(* A Go string is a sequence of text pieces (TLA+ strings); concatenation  *)
(* is \o and the empty string is << >>.  A Go value (interface{}) is a     *)
(* record [kind, s, f]: kind "string" or "int" with its text in s, kind    *)
(* "ptr" for a *Field and kind "struct" for a Field passed by value, both  *)
(* with the Field in f.                                                    *)
(***************************************************************************)
EXTENDS Integers, Sequences, FiniteSets, TLC

VARIABLES
    minPriority,   \* the package variable minPriority
    NoColor,       \* color.NoColor of github.com/fatih/color
    output,        \* concreteLogger.output: the sink the logger writes to
    sinks,         \* the bytes each sink holds
    last,          \* the last call made: its inputs and what it returned
    heap,          \* the objects allocated by new(), by address
    adds,          \* per Field, every (key, value) pair handed to it so far
    pc,            \* per goroutine, its position inside a logging call
    local,         \* per goroutine, the locals of its logging call
    bufLen,        \* per sink, the length field of a strings.Builder's slice
    defaultLogger  \* the package variable defaultLogger: value and once

vars == <<minPriority, NoColor, output, sinks, last, heap, adds, pc, local, bufLen, defaultLogger>>

-----------------------------------------------------------------------------
(* Bounds of the model.                                                    *)

MaxLines == 1
MaxAdds == 3
MaxArgs == 3
MaxUserDepth == 2
CopyChunks == 2

-----------------------------------------------------------------------------
(* Go values.                                                              *)

EmptyField == [keys |-> << >>, values |-> << >>]

StrV(t) == [kind |-> "string", s |-> <<t>>, f |-> EmptyField]
GoString(s) == [kind |-> "string", s |-> s, f |-> EmptyField]
IntV(t) == [kind |-> "int", s |-> <<t>>, f |-> EmptyField]
Ptr(fld) == [kind |-> "ptr", s |-> << >>, f |-> fld]
Struct(fld) == [kind |-> "struct", s |-> << >>, f |-> fld]

\* the map f.values: a sequence of [key, value] entries, at most one per key
MapHas(m, key) == \E i \in 1..Len(m) : m[i].key = key
MapGet(m, key) == LET i == CHOOSE j \in 1..Len(m) : m[j].key = key IN m[i].value
MapSet(m, key, value) ==
    IF MapHas(m, key)
    THEN [i \in 1..Len(m) |-> IF m[i].key = key THEN [key |-> key, value |-> value] ELSE m[i]]
    ELSE Append(m, [key |-> key, value |-> value])

RECURSIVE Concat(_)
Concat(ss) == IF ss = << >> THEN << >> ELSE Head(ss) \o Concat(Tail(ss))

RECURSIVE Contains(_, _)
\* strings.Contains on piece sequences: sub occurs as a contiguous run of s
Contains(s, sub) ==
    IF Len(sub) > Len(s) THEN FALSE
    ELSE IF SubSeq(s, 1, Len(sub)) = sub THEN TRUE
    ELSE Contains(Tail(s), sub)

-----------------------------------------------------------------------------
(* github.com/fatih/color: a SprintFunc wraps its text in an escape        *)
(* sequence unless color.NoColor is set.                                   *)

Colorize(code, s) == IF NoColor THEN s ELSE <<"\\x1b[" \o code \o "m">> \o s \o <<"\\x1b[0m">>

goTagColorFunc(s) == Colorize("37", s)
goIDColorFunc(s) == Colorize("37", s)
funcNameColorFunc(s) == Colorize("36", s)
fileColorFunc(s) == Colorize("95", s)
lineColorFunc(s) == Colorize("33", s)
fieldColorFunc(s) == Colorize("32", s)

-----------------------------------------------------------------------------
(* Package fmt, as far as the logger uses it.                              *)

\* reflect's name of a value's type, as %!(EXTRA ...) and %!verb(...) print it
TypeName(v) ==
    CASE v.kind = "string" -> "string"
      [] v.kind = "int" -> "int"
      [] v.kind = "ptr" -> "*logging.Field"
      [] OTHER -> "logging.Field"

\* the keys the model uses, in Go's string order: fmt prints a map sorted by key
KeyOrder == << <<"10">>, <<"k1">>, <<"k2">>, <<"v1">> >>

RECURSIVE JoinWith(_, _)
JoinWith(ss, sep) ==
    IF ss = << >> THEN << >>
    ELSE IF Len(ss) = 1 THEN ss[1]
    ELSE ss[1] \o sep \o JoinWith(Tail(ss), sep)

\* printArg for a string or an int under one verb
FmtScalar(verb, v) ==
    CASE v.kind = "string" /\ verb \in {"s", "v"} -> v.s
      [] v.kind = "int" /\ verb \in {"d", "v"} -> v.s
      [] OTHER -> <<"%!" \o verb \o "(" \o TypeName(v) \o "=">> \o v.s \o <<")">>

\* printValue of the struct Field{values, keys} under one verb
FmtStruct(verb, fld) ==
    LET sorted == SelectSeq(KeyOrder, LAMBDA k : MapHas(fld.values, k))
        entry(k) == FmtScalar(verb, GoString(k)) \o <<":">>
                        \o FmtScalar(verb, MapGet(fld.values, k))
    IN  <<"{map[">>
            \o JoinWith([i \in 1..Len(sorted) |-> entry(sorted[i])], <<" ">>)
            \o <<"] [">>
            \o JoinWith([i \in 1..Len(fld.keys) |-> FmtScalar(verb, GoString(fld.keys[i]))], <<" ">>)
            \o <<"]}">>

FmtArg(verb, v) ==
    CASE v.kind = "struct" -> FmtStruct(verb, v.f)
      [] v.kind = "ptr" -> <<"&">> \o FmtStruct(verb, v.f)
      [] OTHER -> FmtScalar(verb, v)

\* a format string is a sequence of pieces: literal text, a verb, or "%%"
Lit(t) == [t |-> "lit", x |-> t]
Verb(c) == [t |-> "verb", x |-> c]
Pct == [t |-> "pct", x |-> "%"]

\* the text of a format string, as written
FormatText(format) ==
    Concat([i \in 1..Len(format) |->
                CASE format[i].t = "lit" -> <<format[i].x>>
                  [] format[i].t = "pct" -> <<"%%">>
                  [] OTHER -> <<"%" \o format[i].x>>])

RECURSIVE DoPrintf(_, _, _)
DoPrintf(format, a, argNum) ==
    IF format = << >>
    THEN IF argNum <= Len(a)
         THEN <<"%!(EXTRA ">>
                \o JoinWith([i \in 1..(Len(a) - argNum + 1) |->
                                <<TypeName(a[argNum + i - 1]) \o "=">>
                                    \o FmtArg("v", a[argNum + i - 1])], <<", ">>)
                \o <<")">>
         ELSE << >>
    ELSE LET p == Head(format) IN
         CASE p.t = "lit" -> <<p.x>> \o DoPrintf(Tail(format), a, argNum)
           [] p.t = "pct" -> <<"%">> \o DoPrintf(Tail(format), a, argNum)
           [] OTHER ->
                IF argNum > Len(a)
                THEN <<"%!" \o p.x \o "(MISSING)">> \o DoPrintf(Tail(format), a, argNum)
                ELSE FmtArg(p.x, a[argNum]) \o DoPrintf(Tail(format), a, argNum + 1)

fmt_Sprintf(format, a) == DoPrintf(format, a, 1)

RECURSIVE DoPrint(_, _, _)
\* fmt.Sprint: a space goes between two operands when neither is a string
DoPrint(a, argNum, prevString) ==
    IF argNum > Len(a) THEN << >>
    ELSE LET isString == a[argNum].kind = "string" IN
         (IF argNum > 1 /\ ~isString /\ ~prevString THEN <<" ">> ELSE << >>)
            \o FmtArg("v", a[argNum])
            \o DoPrint(a, argNum + 1, isString)

fmt_Sprint(a) == DoPrint(a, 1, FALSE)

-----------------------------------------------------------------------------
(* Field.                                                                  *)

\* Add without the test that disallows overwrite
Field_Add_Overwrite(fld, key, value) ==
    IF MapHas(fld.values, key)
    THEN [keys |-> fld.keys, values |-> MapSet(fld.values, key, value)]
    ELSE [keys |-> Append(fld.keys, key), values |-> MapSet(fld.values, key, value)]

Field_Add(fld, key, value) ==
    IF MapHas(fld.values, key)
    THEN fld
    ELSE [keys |-> Append(fld.keys, key), values |-> MapSet(fld.values, key, value)]

RECURSIVE NewFieldLoop(_, _, _)
NewFieldLoop(fld, values, idx) ==
    IF idx + 1 > Len(values) THEN fld
    ELSE LET key == values[idx]
             strKey == IF key.kind = "string" THEN key.s ELSE fmt_Sprint(<<key>>)
         IN  NewFieldLoop(Field_Add(fld, strKey, values[idx + 1]), values, idx + 2)

\* NewField whose loop also takes a last key that has no value
NewField_Unpaired(values) ==
    NewFieldLoop(EmptyField,
                 IF Len(values) % 2 = 1 THEN Append(values, StrV("")) ELSE values, 1)

NewField(values) == NewFieldLoop(EmptyField, values, 1)

NewErrField(value) == NewField(<<StrV("err"), value>>)

Field_Sprint(fld) ==
    [i \in 1..Len(fld.keys) |->
        LET key == fld.keys[i] IN
        IF ~MapHas(fld.values, key)
        THEN GoString(key)
        ELSE GoString(fmt_Sprintf(<<Verb("s"), Lit("("), Verb("v"), Lit(")")>>,
                                  <<GoString(fieldColorFunc(key)), MapGet(fld.values, key)>>))]

-----------------------------------------------------------------------------
(* The message composers.                                                  *)

RECURSIVE Translate(_)
\* the first loop of sprint: a *Field is replaced by its tokens
Translate(valueList) ==
    IF valueList = << >> THEN << >>
    ELSE LET value == Head(valueList) IN
         (IF value.kind = "ptr" THEN Field_Sprint(value.f) ELSE <<value>>)
            \o Translate(Tail(valueList))

RECURSIVE Form(_)
\* the second loop of sprint: every token is followed by ", "
Form(translatedList) ==
    IF translatedList = << >> THEN << >>
    ELSE <<Head(translatedList), StrV(", ")>> \o Form(Tail(translatedList))

\* sprint without the strip of the last comma
sprint_NoStrip(valueList) == fmt_Sprint(Form(Translate(valueList)))

sprint(valueList) ==
    LET formedList == Form(Translate(valueList))
        end == IF Len(formedList) # 0 THEN Len(formedList) - 1 ELSE Len(formedList)
    IN  fmt_Sprint(SubSeq(formedList, 1, end))

\* the Loop of sprintf without its break: the last *Field wins
BeginField_Last(valueList) ==
    IF \E i \in 1..Len(valueList) : valueList[i].kind = "ptr"
    THEN CHOOSE i \in 1..Len(valueList) :
            /\ valueList[i].kind = "ptr"
            /\ \A j \in (i + 1)..Len(valueList) : valueList[j].kind # "ptr"
    ELSE Len(valueList) + 1

\* the index (from 1) of the first *Field of valueList, Len + 1 when it has none
BeginField(valueList) ==
    IF \E i \in 1..Len(valueList) : valueList[i].kind = "ptr"
    THEN CHOOSE i \in 1..Len(valueList) :
            /\ valueList[i].kind = "ptr"
            /\ \A j \in 1..(i - 1) : valueList[j].kind # "ptr"
    ELSE Len(valueList) + 1

\* sprintf that hands the format string back when it has no arguments
sprintf_Verbatim(format, valueList) ==
    IF Len(valueList) = 0
    THEN FormatText(format)
    ELSE LET beginField == BeginField(valueList)
             newList == <<GoString(fmt_Sprintf(format, SubSeq(valueList, 1, beginField - 1)))>>
                            \o SubSeq(valueList, beginField, Len(valueList))
         IN  sprint(newList)

sprintf(format, valueList) ==
    IF Len(valueList) = 0
    THEN fmt_Sprintf(format, valueList)
    ELSE LET beginField == BeginField(valueList)
             newList == <<GoString(fmt_Sprintf(format, SubSeq(valueList, 1, beginField - 1)))>>
                            \o SubSeq(valueList, beginField, Len(valueList))
         IN  sprint(newList)

-----------------------------------------------------------------------------
(* The level registry.                                                     *)

level_fatal == [priority |-> 5, name |-> "Fatal", color |-> "41"]
level_error == [priority |-> 4, name |-> "Error", color |-> "91"]
level_warn == [priority |-> 3, name |-> "Warn", color |-> "93"]
level_notice == [priority |-> 2, name |-> "Notice", color |-> "92"]
level_info == [priority |-> 1, name |-> "Info", color |-> "94"]
level_debug == [priority |-> 0, name |-> "Debug", color |-> "90"]

Levels == {level_fatal, level_error, level_warn, level_notice, level_info, level_debug}

\* level.colorFunc
colorFunc(level, s) == Colorize(level.color, s)

\* SetMinLevel that leaves a threshold above every level's priority for "Fatal"
SetMinLevel_Above(minLevel) ==
    CASE minLevel = <<level_fatal.name>> -> level_fatal.priority + 1
      [] minLevel = <<level_error.name>> -> level_error.priority
      [] minLevel = <<level_warn.name>> -> level_warn.priority
      [] minLevel = <<level_notice.name>> -> level_notice.priority
      [] minLevel = <<level_info.name>> -> level_info.priority
      [] minLevel = <<level_debug.name>> -> level_debug.priority
      [] OTHER -> level_debug.priority

\* SetMinLevel without its final assignment: an unknown name leaves the threshold
SetMinLevel_NoDefault(minLevel) ==
    CASE minLevel = <<level_fatal.name>> -> level_fatal.priority
      [] minLevel = <<level_error.name>> -> level_error.priority
      [] minLevel = <<level_warn.name>> -> level_warn.priority
      [] minLevel = <<level_notice.name>> -> level_notice.priority
      [] minLevel = <<level_info.name>> -> level_info.priority
      [] minLevel = <<level_debug.name>> -> level_debug.priority
      [] OTHER -> minPriority

\* SetMinLevel: the value it leaves in minPriority
SetMinLevel(minLevel) ==
    CASE minLevel = <<level_fatal.name>> -> level_fatal.priority
      [] minLevel = <<level_error.name>> -> level_error.priority
      [] minLevel = <<level_warn.name>> -> level_warn.priority
      [] minLevel = <<level_notice.name>> -> level_notice.priority
      [] minLevel = <<level_info.name>> -> level_info.priority
      [] minLevel = <<level_debug.name>> -> level_debug.priority
      [] OTHER -> level_debug.priority

-----------------------------------------------------------------------------
(* The call stack.  A stack is a sequence of frames, innermost first; a    *)
(* frame is [func, file, line], the line being the one the frame is        *)
(* executing: the line of the call it has made.                            *)

NL == "\n"

gitVersion == << >>
buildVersion == << >>

PkgPath == "github.com/photon3108/logging"
LogFile == <<"go", "src", PkgPath, "log.go">>
DebugFile == <<"go", "src", PkgPath, "log_debug.go">>

Frame(fn, file, line) == [func |-> fn, file |-> file, line |-> line]
MethodFrame(name, file, line) == Frame(PkgPath \o ".(*concreteLogger)." \o name, file, line)

\* runtime.Caller(skip), called from the innermost frame of stack
runtime_Caller(stack, skip) ==
    IF skip >= 0 /\ skip + 1 <= Len(stack)
    THEN [ok |-> TRUE, func |-> stack[skip + 1].func,
          file |-> stack[skip + 1].file, line |-> stack[skip + 1].line]
    ELSE [ok |-> FALSE, func |-> "", file |-> << >>, line |-> 0]

\* filepath.Base of a path given by its components
filepath_Base(path) == IF path = << >> THEN <<".">> ELSE <<path[Len(path)]>>

\* runtime.Stack(buffer, false) followed by bytes.Fields: the header line of
\* the goroutine's trace, "goroutine <id> [running]:", cut at the buffer's size
StackFields(gid) == <<"goroutine", ToString(gid), "[running]:">>

LineFormat ==
    <<Verb("s"), Lit(" "), Verb("s"), Verb("s"), Lit(":"), Verb("s"), Lit(" "),
      Verb("s"), Lit(":"), Verb("s"), Lit(":"), Verb("s"), Lit(" {git:"), Verb("s"),
      Lit(", build:"), Verb("s"), Lit("}"), Lit(NL)>>

\* printf, lines 95-98: the goroutine's id, "-1" when the trace has no second field
GoID(bufList) == IF Len(bufList) >= 2 THEN <<bufList[2]>> ELSE <<"-1">>

\* Resolve without the assignment line = -1: the line runtime.Caller left is kept
Resolve_ZeroLine(c) ==
    IF ~c.ok
    THEN [funcName |-> <<"???">>, file |-> <<"???">>, line |-> c.line]
    ELSE [funcName |-> <<c.func>>, file |-> filepath_Base(c.file), line |-> c.line]

\* printf, lines 100-108: the function, file and line to report for the result
\* c of runtime.Caller
Resolve(c) ==
    IF ~c.ok
    THEN [funcName |-> <<"???">>, file |-> <<"???">>, line |-> -1]
    ELSE [funcName |-> <<c.func>>, file |-> filepath_Base(c.file), line |-> c.line]

\* printf, lines 110-125: the line handed to fmt.Fprintf
FormatLine(level, goID, msg, r) ==
    fmt_Sprintf(LineFormat,
        <<GoString(colorFunc(level, <<"[">> \o <<level.name>> \o <<"]">>)),
          GoString(goTagColorFunc(<<"Go">>)),
          GoString(goIDColorFunc(goID)),
          GoString(IF Len(msg) # 0 THEN <<" ">> \o msg ELSE msg),
          GoString(funcNameColorFunc(r.funcName \o <<"()">>)),
          GoString(fileColorFunc(r.file)),
          GoString(lineColorFunc(fmt_Sprint(<<IntV(ToString(r.line))>>))),
          GoString(gitVersion),
          GoString(buildVersion)>>)

\* printf with the threshold test off by one: a call at the threshold is dropped
printf_Strict(depth, level, msg, stack, gid) ==
    IF level.priority <= minPriority
    THEN << >>
    ELSE <<FormatLine(level, GoID(StackFields(gid)), msg,
                      Resolve(runtime_Caller(<<Frame(PkgPath \o ".printf", LogFile, 101)>> \o stack,
                                            depth)))>>

\* printf: the sequence of Write calls it makes on output (none, or one line).
\* stack is the stack of printf's caller; gid is the calling goroutine.
printf(depth, level, msg, stack, gid) ==
    IF level.priority < minPriority
    THEN << >>
    ELSE <<FormatLine(level, GoID(StackFields(gid)), msg,
                      Resolve(runtime_Caller(<<Frame(PkgPath \o ".printf", LogFile, 101)>> \o stack,
                                            depth)))>>

-----------------------------------------------------------------------------
(* The methods of concreteLogger.  Each takes the stack of its caller and  *)
(* the calling goroutine, and yields the Write calls made on the output.   *)

Fatald(depth, v, stack, gid) ==
    printf(depth, level_fatal, sprint(v), <<MethodFrame("Fatald", LogFile, 270)>> \o stack, gid)

Fataldf(depth, format, v, stack, gid) ==
    printf(depth, level_fatal, sprintf(format, v),
           <<MethodFrame("Fataldf", LogFile, 275)>> \o stack, gid)

Errord(depth, v, stack, gid) ==
    printf(depth, level_error, sprint(v), <<MethodFrame("Errord", LogFile, 279)>> \o stack, gid)

Errordf(depth, format, v, stack, gid) ==
    printf(depth, level_error, sprintf(format, v),
           <<MethodFrame("Errordf", LogFile, 284)>> \o stack, gid)

Warnd(depth, v, stack, gid) ==
    printf(depth, level_warn, sprint(v), <<MethodFrame("Warnd", LogFile, 288)>> \o stack, gid)

Warndf(depth, format, v, stack, gid) ==
    printf(depth, level_warn, sprintf(format, v),
           <<MethodFrame("Warndf", LogFile, 293)>> \o stack, gid)

Noticed(depth, v, stack, gid) ==
    printf(depth, level_notice, sprint(v), <<MethodFrame("Noticed", LogFile, 297)>> \o stack, gid)

Noticedf(depth, format, v, stack, gid) ==
    printf(depth, level_notice, sprintf(format, v),
           <<MethodFrame("Noticedf", LogFile, 302)>> \o stack, gid)

Infod(depth, v, stack, gid) ==
    printf(depth, level_info, sprint(v), <<MethodFrame("Infod", LogFile, 306)>> \o stack, gid)

Infodf(depth, format, v, stack, gid) ==
    printf(depth, level_info, sprintf(format, v),
           <<MethodFrame("Infodf", LogFile, 311)>> \o stack, gid)

Debugd(depth, v, stack, gid) ==
    printf(depth, level_debug, sprint(v), <<MethodFrame("Debugd", LogFile, 315)>> \o stack, gid)

Debugdf(depth, format, v, stack, gid) ==
    printf(depth, level_debug, sprintf(format, v),
           <<MethodFrame("Debugdf", LogFile, 320)>> \o stack, gid)

Fatal(v, stack, gid) ==
    Fatald(3, v, <<MethodFrame("Fatal", LogFile, 230)>> \o stack, gid)

Fatalf(format, v, stack, gid) ==
    Fataldf(3, format, v, <<MethodFrame("Fatalf", LogFile, 234)>> \o stack, gid)

Error(v, stack, gid) ==
    Errord(3, v, <<MethodFrame("Error", LogFile, 238)>> \o stack, gid)

Errorf(format, v, stack, gid) ==
    Errordf(3, format, v, <<MethodFrame("Errorf", LogFile, 242)>> \o stack, gid)

\* Warn with the depth of a direct call of Warnd: one frame short
Warn_Depth2(v, stack, gid) ==
    Warnd(2, v, <<MethodFrame("Warn", LogFile, 246)>> \o stack, gid)

Warn(v, stack, gid) ==
    Warnd(3, v, <<MethodFrame("Warn", LogFile, 246)>> \o stack, gid)

Warnf(format, v, stack, gid) ==
    Warndf(3, format, v, <<MethodFrame("Warnf", LogFile, 250)>> \o stack, gid)

Notice(v, stack, gid) ==
    Noticed(3, v, <<MethodFrame("Notice", LogFile, 254)>> \o stack, gid)

Noticef(format, v, stack, gid) ==
    Noticedf(3, format, v, <<MethodFrame("Noticef", LogFile, 258)>> \o stack, gid)

Info(v, stack, gid) ==
    Infod(3, v, <<MethodFrame("Info", LogFile, 262)>> \o stack, gid)

Infof(format, v, stack, gid) ==
    Infodf(3, format, v, <<MethodFrame("Infof", LogFile, 266)>> \o stack, gid)

Debug(v, stack, gid) ==
    Debugd(3, v, <<MethodFrame("Debug", DebugFile, 6)>> \o stack, gid)

Debugf(format, v, stack, gid) ==
    Debugdf(3, format, v, <<MethodFrame("Debugf", DebugFile, 10)>> \o stack, gid)

\* the names of the methods, by interface
PlainMethods == {"Fatal", "Error", "Warn", "Notice", "Info", "Debug"}
FormatMethods == {"Fatalf", "Errorf", "Warnf", "Noticef", "Infof", "Debugf"}
DepthMethods == {"Fatald", "Errord", "Warnd", "Noticed", "Infod", "Debugd"}
DepthFormatMethods == {"Fataldf", "Errordf", "Warndf", "Noticedf", "Infodf", "Debugdf"}
Methods == PlainMethods \cup FormatMethods \cup DepthMethods \cup DepthFormatMethods

\* the dispatch of a call of method m on the logger
Invoke(m, depth, format, v, stack, gid) ==
    CASE m = "Fatal" -> Fatal(v, stack, gid)
      [] m = "Fatalf" -> Fatalf(format, v, stack, gid)
      [] m = "Fatald" -> Fatald(depth, v, stack, gid)
      [] m = "Fataldf" -> Fataldf(depth, format, v, stack, gid)
      [] m = "Error" -> Error(v, stack, gid)
      [] m = "Errorf" -> Errorf(format, v, stack, gid)
      [] m = "Errord" -> Errord(depth, v, stack, gid)
      [] m = "Errordf" -> Errordf(depth, format, v, stack, gid)
      [] m = "Warn" -> Warn(v, stack, gid)
      [] m = "Warnf" -> Warnf(format, v, stack, gid)
      [] m = "Warnd" -> Warnd(depth, v, stack, gid)
      [] m = "Warndf" -> Warndf(depth, format, v, stack, gid)
      [] m = "Notice" -> Notice(v, stack, gid)
      [] m = "Noticef" -> Noticef(format, v, stack, gid)
      [] m = "Noticed" -> Noticed(depth, v, stack, gid)
      [] m = "Noticedf" -> Noticedf(depth, format, v, stack, gid)
      [] m = "Info" -> Info(v, stack, gid)
      [] m = "Infof" -> Infof(format, v, stack, gid)
      [] m = "Infod" -> Infod(depth, v, stack, gid)
      [] m = "Infodf" -> Infodf(depth, format, v, stack, gid)
      [] m = "Debug" -> Debug(v, stack, gid)
      [] m = "Debugf" -> Debugf(format, v, stack, gid)
      [] m = "Debugd" -> Debugd(depth, v, stack, gid)
      [] m = "Debugdf" -> Debugdf(depth, format, v, stack, gid)

\* the severity a method logs at
LevelOf(m) ==
    CASE m \in {"Fatal", "Fatalf", "Fatald", "Fataldf"} -> level_fatal
      [] m \in {"Error", "Errorf", "Errord", "Errordf"} -> level_error
      [] m \in {"Warn", "Warnf", "Warnd", "Warndf"} -> level_warn
      [] m \in {"Notice", "Noticef", "Noticed", "Noticedf"} -> level_notice
      [] m \in {"Info", "Infof", "Infod", "Infodf"} -> level_info
      [] m \in {"Debug", "Debugf", "Debugd", "Debugdf"} -> level_debug

-----------------------------------------------------------------------------
(* The state of the program and the calls made on it.                      *)

\* the two writers a logger is given: os.Stdout (NewLogger) and a strings.Builder
SinkIds == {"stdout", "buffer"}

\* the addresses new(Field) hands out in the model: two Field objects
Addrs == 1..2

NumLines(s) == Cardinality({i \in 1..Len(s) : s[i] = NL})

\* what last holds when no call has been made
NoCall ==
    [op |-> "none", method |-> "", depth |-> 0, format |-> << >>, args |-> << >>,
     stack |-> << >>, setCalled |-> FALSE, setName |-> << >>, before |-> << >>,
     writes |-> << >>, ret |-> << >>, addr |-> 0, key |-> << >>,
     value |-> GoString(<< >>), retAddr |-> 0, tokens |-> << >>, sink |-> ""]

\* what a call leaves in last: the threshold's history is carried along
Called(op) == [NoCall EXCEPT !.op = op, !.setCalled = last.setCalled, !.setName = last.setName]

\* the zero value of defaultLogger: value nil (0), once not done, its mutex free
NoLogger == [value |-> 0, done |-> 0, m |-> 0]

\* the state of the package and of a logger made by NewLogger
InitState ==
    /\ minPriority = 0
    /\ defaultLogger = NoLogger
    /\ NoColor \in BOOLEAN
    /\ output = "stdout"
    /\ sinks = [s \in SinkIds |-> << >>]
    /\ bufLen = [s \in SinkIds |-> 0]

Init ==
    /\ InitState
    /\ last = NoCall
    /\ heap = << >>
    /\ adds = << >>
    /\ pc = << >>
    /\ local = << >>

\* SetMinLevel(name)
DoSetMinLevel(name) ==
    /\ minPriority' = SetMinLevel(name)
    /\ last' = [NoCall EXCEPT !.op = "SetMinLevel", !.setCalled = TRUE, !.setName = name]
    /\ UNCHANGED <<defaultLogger, NoColor, output, sinks, bufLen, heap, adds, pc, local>>

\* logger.SetOutput(w), w a writer that holds the bytes held; the writer it
\* replaces is no longer the logger's and leaves the model
SetOutput(w, held) ==
    /\ output' = w
    /\ sinks' = [s \in SinkIds |-> IF s = w THEN held ELSE << >>]
    /\ bufLen' = [s \in SinkIds |-> IF s = w THEN Len(held) ELSE 0]
    /\ last' = Called("SetOutput")
    /\ UNCHANGED <<defaultLogger, minPriority, NoColor, heap, adds, pc, local>>

\* the model lets a call be made only while the sink holds fewer than cap lines
HasRoom(cap) == NumLines(sinks[output]) < cap

\* the effect of a call whose Write calls on the output are writes
Written(call, writes) ==
    /\ sinks' = [sinks EXCEPT ![output] = @ \o Concat(writes)]
    /\ bufLen' = [bufLen EXCEPT ![output] = @ + Len(Concat(writes))]
    /\ last' = [call EXCEPT !.before = sinks[output], !.writes = writes]
    /\ UNCHANGED <<defaultLogger, minPriority, NoColor, output, heap, adds, pc, local>>

\* a call of method m of the logger from the stack given, by goroutine 1
Log(m, depth, format, v, stack) ==
    Written([Called("log") EXCEPT !.method = m, !.depth = depth, !.format = format,
                                 !.args = v, !.stack = stack],
            Invoke(m, depth, format, v, stack, 1))

-----------------------------------------------------------------------------
(* The callers of the model: their stacks and the arguments they pass.     *)

UserFile == <<"home", "app", "main.go">>

RuntimeFrames ==
    <<Frame("runtime.main", <<"go", "src", "runtime", "proc.go">>, 250),
      Frame("runtime.goexit", <<"go", "src", "runtime", "asm_amd64.s">>, 1594)>>

\* the stack of a user whose n-th nested function calls the logger
UserStack(n) ==
    [i \in 1..n |-> Frame("main.f" \o ToString(n + 1 - i), UserFile, 10 * (n + 1 - i) + 7)]
        \o RuntimeFrames

UserDepths == 1..MaxUserDepth

\* depths up to one past the deepest stack: the deepest has printf, a method
\* of the logger, MaxUserDepth user frames and the runtime's two
Depths == 0..(MaxUserDepth + 4)

LevelNames ==
    {<<"Fatal">>, <<"Error">>, <<"Warn">>, <<"Notice">>, <<"Info">>, <<"Debug">>,
     <<"fatal">>, <<"Verbose">>, << >>}

\* the bytes a writer handed to SetOutput may already hold
SinkHeld == {<< >>, <<"earlier output">>}

Msg0 == StrV("dfdffdc4")
Msg1 == StrV("2c9a3582")
Format0 == <<Verb("s")>>

Field0 == NewField(<<StrV("k1"), StrV("true"), StrV("k2"), IntV("10")>>)
Field1 == NewField(<<StrV("k1"), IntV("23")>>)

-----------------------------------------------------------------------------
(* The logger under SetMinLevel, SetOutput and calls at every severity.    *)

Next ==
    \/ \E name \in LevelNames : DoSetMinLevel(name)
    \/ \E w \in SinkIds, held \in SinkHeld : SetOutput(w, held)
    \/ /\ HasRoom(MaxLines)
       /\ \E m \in PlainMethods \cup FormatMethods :
            Log(m, 0, Format0, <<Msg0>>, UserStack(1))
    \/ /\ HasRoom(MaxLines)
       /\ \E m \in DepthMethods \cup DepthFormatMethods :
            Log(m, 2, Format0, <<Msg0>>, UserStack(1))

Spec == Init /\ [][Next]_vars

\* C1: a call of a severity's method, plain, formatted or depth-parameterized,
\* appends exactly one line holding the severity's name to the sink when the
\* severity's priority is at least the threshold, and leaves the sink as it
\* was, with no Write made, when the priority is below the threshold.
C1_FilterByThreshold ==
    last.op = "log" =>
        LET lvl == LevelOf(last.method) IN
        IF lvl.priority >= minPriority
        THEN /\ Len(last.writes) = 1
             /\ sinks[output] = last.before \o last.writes[1]
             /\ NumLines(last.writes[1]) = 1
             /\ last.writes[1][Len(last.writes[1])] = NL
             /\ Contains(last.writes[1], <<lvl.name>>)
        ELSE /\ last.writes = << >>
             /\ sinks[output] = last.before

\* a Warn call at the threshold 3, emitted to a sink that held bytes before
C1_Witness ==
    /\ last.op = "log"
    /\ last.method = "Warn"
    /\ minPriority = 3
    /\ last.before # << >>
    /\ Len(last.writes) = 1
    /\ sinks[output] = last.before \o last.writes[1]

\* the threshold the claim gives for a name
ThresholdOf(name) ==
    CASE name = <<"Fatal">> -> 5
      [] name = <<"Error">> -> 4
      [] name = <<"Warn">> -> 3
      [] name = <<"Notice">> -> 2
      [] name = <<"Info">> -> 1
      [] OTHER -> 0

\* C2: the threshold is the priority of the severity named by the last
\* SetMinLevel call, and 0 (Debug) when that name is none of the six, so that
\* a Debug call made after such a name is emitted.
C2_SetMinLevel ==
    /\ last.setCalled => minPriority = ThresholdOf(last.setName)
    /\ ( /\ last.op = "log"
         /\ last.setCalled
         /\ last.setName \notin {<<l.name>> : l \in Levels}
         /\ LevelOf(last.method) = level_debug ) => Len(last.writes) = 1

\* a Debug call emitted after SetMinLevel("fatal"), a name in the wrong case
C2_Witness ==
    /\ last.op = "log"
    /\ last.setCalled
    /\ last.setName = <<"fatal">>
    /\ last.method = "Debugd"
    /\ Len(last.writes) = 1

\* C14: the threshold starts at 0 and is always one of the six priorities
\* 0..5; a Fatal call is therefore never suppressed; and a logging call or a
\* SetOutput call leaves the threshold as it was.
C14_ThresholdInRange ==
    /\ minPriority = 0
    /\ [](/\ minPriority \in {l.priority : l \in Levels}
          /\ minPriority \in 0..5
          /\ (last.op = "log" /\ LevelOf(last.method) = level_fatal) => Len(last.writes) = 1)
    /\ [][last'.op \in {"log", "SetOutput"} => minPriority' = minPriority]_vars

\* a Fatal call emitted at the highest threshold, the one SetMinLevel("Fatal")
\* left, on the sink a SetOutput call installed in between
C14_Witness ==
    /\ last.op = "log"
    /\ last.method = "Fatalf"
    /\ last.setCalled
    /\ last.setName = <<"Fatal">>
    /\ minPriority = 5
    /\ output = "buffer"
    /\ Len(last.writes) = 1

-----------------------------------------------------------------------------
(* The logger under calls from stacks of every depth, with every depth     *)
(* argument, and with argument lists that mix messages and Fields.  Each   *)
(* call is made on a writer installed for it, as the tests reset their     *)
(* buffer before each call: the sink takes one line.                       *)

\* the sequences over S of length at most n
SeqsUpTo(S, n) == UNION {[1..k -> S] : k \in 0..n}

MixedValues == {Msg0, Msg1, Ptr(Field0), Struct(Field0), Ptr(Field1), Struct(Field1)}
MixedArgs == SeqsUpTo(MixedValues, MaxArgs)

NextCalls ==
    \/ \E held \in SinkHeld : SetOutput("buffer", held)
    \/ /\ HasRoom(1)
       /\ \E m \in PlainMethods \cup FormatMethods, u \in UserDepths :
            Log(m, 0, Format0, <<Msg0>>, UserStack(u))
    \/ /\ HasRoom(1)
       /\ \E m \in DepthMethods \cup DepthFormatMethods, d \in Depths, u \in UserDepths :
            Log(m, d, Format0, <<Msg0>>, UserStack(u))
    \/ /\ HasRoom(1)
       /\ \E m \in {"Error", "Errorf"}, v \in MixedArgs :
            Log(m, 0, Format0, v, UserStack(1))

SpecCalls == Init /\ [][NextCalls]_vars

\* the token the claims give for a key and its value: "key(value)", the key styled
Token(key, value) == fieldColorFunc(key) \o <<"(">> \o FmtArg("v", value) \o <<")">>

\* the caller segment of a line that reports func, file and line
CallerText(func, file, line) ==
    <<" ">> \o funcNameColorFunc(<<func, "()">>) \o <<":">> \o fileColorFunc(<<file>>)
        \o <<":">> \o lineColorFunc(<<line>>) \o <<" {git:">>

\* C7: the line of a call that mixes plain messages and Fields holds every
\* plain message and a "key(value)" token for every key of every Field
\* passed, whether the Field was passed by value or by pointer.
C7_FieldByValueOrPointer ==
    (last.op = "log" /\ Len(last.writes) = 1) =>
        \A i \in 1..Len(last.args) :
            LET a == last.args[i] IN
            IF a.kind \in {"ptr", "struct"}
            THEN \A j \in 1..Len(a.f.keys) :
                    Contains(last.writes[1],
                             Token(a.f.keys[j], MapGet(a.f.values, a.f.keys[j])))
            ELSE Contains(last.writes[1], a.s)

\* the same statement for the Fields passed by pointer alone
C7_FieldByPointer ==
    (last.op = "log" /\ Len(last.writes) = 1) =>
        \A i \in 1..Len(last.args) :
            LET a == last.args[i] IN
            IF a.kind = "ptr"
            THEN \A j \in 1..Len(a.f.keys) :
                    Contains(last.writes[1],
                             Token(a.f.keys[j], MapGet(a.f.values, a.f.keys[j])))
            ELSE a.kind = "struct" \/ Contains(last.writes[1], a.s)

\* C9: the line of a call of a public per-level method reports the function,
\* the file's base name and the line of the user's frame that made the call,
\* at every depth of the user's stack.
C9_CallerIsUserFrame ==
    ( /\ last.op = "log"
      /\ last.method \in PlainMethods \cup FormatMethods
      /\ Len(last.writes) = 1 ) =>
        LET user == last.stack[1] IN
        Contains(last.writes[1],
                 CallerText(user.func, user.file[Len(user.file)], ToString(user.line)))

\* a line emitted by Warnf called from the deepest user stack
C9_Witness ==
    /\ last.op = "log"
    /\ last.method = "Warnf"
    /\ Len(last.stack) = MaxUserDepth + Len(RuntimeFrames)
    /\ Len(last.writes) = 1

\* C10: a depth-parameterized call whose depth exceeds the stack (printf's
\* frame, the method's and the caller's stack) still writes its line, which
\* reports "???" for the function and the file and -1 for the line.
C10_UnresolvedCaller ==
    ( /\ last.op = "log"
      /\ last.method \in DepthMethods \cup DepthFormatMethods
      /\ last.depth >= Len(last.stack) + 2
      /\ LevelOf(last.method).priority >= minPriority ) =>
        /\ Len(last.writes) = 1
        /\ sinks[output] = last.before \o last.writes[1]
        /\ Contains(last.writes[1], CallerText("???", "???", "-1"))

\* a depth-parameterized call with a depth one past the end of its stack
C10_Witness ==
    /\ last.op = "log"
    /\ last.method = "Infod"
    /\ last.depth = Len(last.stack) + 2
    /\ Len(last.writes) = 1

-----------------------------------------------------------------------------
(* The composers alone: a format string and an argument list are drawn,    *)
(* and sprint or sprintf is applied to them.                               *)

ComposeValues ==
    {StrV("a"), GoString(<< >>), IntV("10"), Ptr(EmptyField), Ptr(Field0), Struct(Field1)}

Formats ==
    {<< >>, <<Lit("x")>>, <<Verb("s")>>, <<Verb("s"), Lit(", "), Verb("d")>>,
     <<Pct, Verb("v")>>}

InitCompose ==
    /\ InitState
    /\ heap = << >>
    /\ adds = << >>
    /\ pc = << >>
    /\ local = << >>
    /\ \E format \in Formats, v \in SeqsUpTo(ComposeValues, MaxArgs) :
            last = [NoCall EXCEPT !.op = "input", !.format = format, !.args = v]

CallSprint ==
    /\ last.op = "input"
    /\ last' = [last EXCEPT !.op = "sprint", !.format = << >>, !.ret = sprint(last.args)]
    /\ UNCHANGED <<defaultLogger, minPriority, NoColor, output, sinks, bufLen, heap, adds, pc, local>>

CallSprintf ==
    /\ last.op = "input"
    /\ last' = [last EXCEPT !.op = "sprintf", !.ret = sprintf(last.format, last.args)]
    /\ UNCHANGED <<defaultLogger, minPriority, NoColor, output, sinks, bufLen, heap, adds, pc, local>>

NextCompose == CallSprint \/ CallSprintf

SpecCompose == InitCompose /\ [][NextCompose]_vars

RECURSIVE ExpectedTokens(_)
\* the tokens the claims give for an argument list: a Field (the *Field the
\* composers look for) gives one "key(value)" token per key, in key order,
\* and every other value gives itself, in its default form
ExpectedTokens(v) ==
    IF v = << >> THEN << >>
    ELSE (IF Head(v).kind = "ptr"
          THEN [j \in 1..Len(Head(v).f.keys) |->
                    Token(Head(v).f.keys[j], MapGet(Head(v).f.values, Head(v).f.keys[j]))]
          ELSE <<FmtArg("v", Head(v))>>)
         \o ExpectedTokens(Tail(v))

\* the index of the first Field of v, Len(v) + 1 when v has none
FirstField(v) ==
    LET at == {i \in 1..Len(v) : v[i].kind = "ptr"} IN
    IF at = {} THEN Len(v) + 1 ELSE CHOOSE i \in at : \A j \in at : i <= j

-----------------------------------------------------------------------------
(* Field objects under NewField and Add.                                   *)

FieldKeys == {<<"k1">>, <<"k2">>}
FieldValues == {StrV("v1"), IntV("10")}
NewFieldValues == {StrV("k1"), IntV("10"), StrV("v1")}

\* the (key, value) pairs a flat list hands to NewField, a key in its text form
PairsOf(values) ==
    [i \in 1..(Len(values) \div 2) |->
        [key |-> values[2 * i - 1].s, value |-> values[2 * i]]]

RECURSIVE SumLen(_)
SumLen(ss) == IF ss = << >> THEN 0 ELSE Len(Head(ss)) + SumLen(Tail(ss))

\* f := NewField(values...)
DoNewField(values) ==
    /\ Len(heap) < Cardinality(Addrs)
    /\ SumLen(adds) + Len(PairsOf(values)) <= MaxAdds
    /\ heap' = Append(heap, NewField(values))
    /\ adds' = Append(adds, PairsOf(values))
    /\ last' = [Called("NewField") EXCEPT !.args = values, !.retAddr = Len(heap) + 1]
    /\ UNCHANGED <<defaultLogger, minPriority, NoColor, output, sinks, bufLen, pc, local>>

\* f.Add(key, value) on the Field at address a, which returns f
DoAdd(a, key, value) ==
    /\ SumLen(adds) < MaxAdds
    /\ heap' = [heap EXCEPT ![a] = Field_Add(heap[a], key, value)]
    /\ adds' = [adds EXCEPT ![a] = Append(@, [key |-> key, value |-> value])]
    /\ last' = [Called("Add") EXCEPT !.addr = a, !.key = key, !.value = value,
                                    !.retAddr = a, !.tokens = Field_Sprint(heap[a])]
    /\ UNCHANGED <<defaultLogger, minPriority, NoColor, output, sinks, bufLen, pc, local>>

NextField ==
    \/ \E values \in SeqsUpTo(NewFieldValues, MaxArgs) : DoNewField(values)
    \/ \E a \in 1..Len(heap), key \in FieldKeys, value \in FieldValues : DoAdd(a, key, value)

SpecField == Init /\ [][NextField]_vars

RECURSIVE FirstPairs(_)
\* the pairs of ps whose key no earlier pair of ps has, in order
FirstPairs(ps) ==
    IF ps = << >> THEN << >>
    ELSE LET front == FirstPairs(SubSeq(ps, 1, Len(ps) - 1))
             p == ps[Len(ps)]
         IN  IF \E i \in 1..Len(front) : front[i].key = p.key THEN front ELSE Append(front, p)

\* C4: Sprint gives one token per distinct key, in the order of the keys'
\* first insertions, each with the value of the first insertion; an Add of
\* a key already there changes no token, and Add returns its receiver.
C4_FirstWriteWins ==
    /\ \A a \in 1..Len(heap) :
            LET fp == FirstPairs(adds[a]) IN
            Field_Sprint(heap[a]) =
                [i \in 1..Len(fp) |-> GoString(Token(fp[i].key, fp[i].value))]
    /\ last.op = "Add" =>
            /\ last.retAddr = last.addr
            /\ (\E i \in 1..Len(last.tokens) :
                    Contains(last.tokens[i].s, fieldColorFunc(last.key) \o <<"(">>))
                    => Field_Sprint(heap[last.addr]) = last.tokens

\* Add(k, v2) on a Field of two keys that got k with another value v1 before
C4_Witness ==
    /\ last.op = "Add"
    /\ Len(heap[last.addr].keys) = 2
    /\ \E i \in 1..(Len(adds[last.addr]) - 1) :
            /\ adds[last.addr][i].key = last.key
            /\ adds[last.addr][i].value # last.value
    /\ Field_Sprint(heap[last.addr]) = last.tokens

-----------------------------------------------------------------------------
(* Two goroutines that log through one logger at the same time.  printf    *)
(* takes no lock: after it has built its line, fmt.Fprintf hands the line  *)
(* to output.Write.  Write on os.Stdout (an *os.File) is one step, the     *)
(* file's own lock making it so.  Write on a strings.Builder is            *)
(* b.buf = append(b.buf, p...): it loads the slice, copies p behind its    *)
(* length and stores the longer slice, and two goroutines doing so race.   *)

Goroutines == {1, 2}

ConcMethods == {"Error", "Warnf"}

\* what a reader of the sink sees: the bytes up to the slice's length
Visible(s) == SubSeq(sinks[s], 1, bufLen[s])

\* arr with chunk stored from position pos on
StoreAt(arr, pos, chunk) ==
    [i \in 1..(IF Len(arr) > pos + Len(chunk) - 1 THEN Len(arr) ELSE pos + Len(chunk) - 1) |->
        IF i >= pos /\ i < pos + Len(chunk) THEN chunk[i - pos + 1] ELSE arr[i]]

\* the k-th of the CopyChunks parts in which the copy of line proceeds
Chunk(line, k) ==
    SubSeq(line, ((k - 1) * Len(line)) \div CopyChunks + 1, (k * Len(line)) \div CopyChunks)

InitConc ==
    /\ defaultLogger = NoLogger
    /\ minPriority \in {level_debug.priority, level_error.priority}
    /\ NoColor \in BOOLEAN
    /\ output \in SinkIds
    /\ sinks = [s \in SinkIds |-> << >>]
    /\ bufLen = [s \in SinkIds |-> 0]
    /\ last = NoCall
    /\ heap = << >>
    /\ adds = << >>
    /\ pc = [g \in Goroutines |-> "call"]
    /\ \E ms \in [Goroutines -> ConcMethods] :
            local = [g \in Goroutines |->
                        [method |-> ms[g], line |-> << >>, emitted |-> FALSE,
                         base |-> 0, copied |-> 0]]

\* goroutine g calls its method with its message: everything up to the
\* call of output.Write
Start(g) ==
    /\ pc[g] = "call"
    /\ LET writes == Invoke(local[g].method, 0, Format0, <<StrV("from " \o ToString(g))>>,
                            UserStack(1), g)
       IN  IF writes = << >>
           THEN /\ pc' = [pc EXCEPT ![g] = "done"]
                /\ UNCHANGED local
           ELSE /\ pc' = [pc EXCEPT ![g] = "write"]
                /\ local' = [local EXCEPT ![g].line = writes[1], ![g].emitted = TRUE]
    /\ UNCHANGED <<defaultLogger, minPriority, NoColor, output, sinks, bufLen, last, heap, adds>>

\* (*os.File).Write
WriteFile(g) ==
    /\ pc[g] = "write"
    /\ output = "stdout"
    /\ sinks' = [sinks EXCEPT ![output] = @ \o local[g].line]
    /\ bufLen' = [bufLen EXCEPT ![output] = @ + Len(local[g].line)]
    /\ pc' = [pc EXCEPT ![g] = "done"]
    /\ UNCHANGED <<defaultLogger, minPriority, NoColor, output, last, heap, adds, local>>

\* (*strings.Builder).Write: the load of b.buf
WriteLoad(g) ==
    /\ pc[g] = "write"
    /\ output = "buffer"
    /\ local' = [local EXCEPT ![g].base = bufLen[output], ![g].copied = 0]
    /\ pc' = [pc EXCEPT ![g] = "copy"]
    /\ UNCHANGED <<defaultLogger, minPriority, NoColor, output, sinks, bufLen, last, heap, adds>>

\* (*strings.Builder).Write: the copy of the next part of the line
WriteCopy(g) ==
    /\ pc[g] = "copy"
    /\ local[g].copied < CopyChunks
    /\ LET k == local[g].copied + 1
           at == local[g].base + ((k - 1) * Len(local[g].line)) \div CopyChunks + 1
       IN  sinks' = [sinks EXCEPT ![output] = StoreAt(@, at, Chunk(local[g].line, k))]
    /\ local' = [local EXCEPT ![g].copied = @ + 1]
    /\ UNCHANGED <<defaultLogger, minPriority, NoColor, output, bufLen, last, heap, adds, pc>>

\* (*strings.Builder).Write: the store of the longer slice in b.buf
WriteStore(g) ==
    /\ pc[g] = "copy"
    /\ local[g].copied = CopyChunks
    /\ bufLen' = [bufLen EXCEPT ![output] = local[g].base + Len(local[g].line)]
    /\ pc' = [pc EXCEPT ![g] = "done"]
    /\ UNCHANGED <<defaultLogger, minPriority, NoColor, output, sinks, last, heap, adds, local>>

NextConc ==
    \E g \in Goroutines :
        Start(g) \/ WriteFile(g) \/ WriteLoad(g) \/ WriteCopy(g) \/ WriteStore(g)

SpecConc == InitConc /\ [][NextConc]_vars

\* C3: when both goroutines have returned from calls at or above the
\* threshold, the sink holds their two lines, whole, one after the other.
C3_TwoWholeLines ==
    ( /\ \A g \in Goroutines : pc[g] = "done" /\ local[g].emitted ) =>
        \/ Visible(output) = local[1].line \o local[2].line
        \/ Visible(output) = local[2].line \o local[1].line

\* the same, for the logger whose output is os.Stdout
C3_TwoWholeLinesOnFile ==
    ( /\ output = "stdout"
      /\ \A g \in Goroutines : pc[g] = "done" /\ local[g].emitted ) =>
        \/ Visible(output) = local[1].line \o local[2].line
        \/ Visible(output) = local[2].line \o local[1].line

-----------------------------------------------------------------------------
(* DefaultLogger called by two goroutines, each several times, with        *)
(* SetOutput calls on the logger it returned in between.                   *)
(* defaultLogger.once.Do(f) is sync.Once: it loads done, and when that is  *)
(* 0 it locks the mutex, loads done again, and when that is still 0 runs f *)
(* and then stores 1 in done; it unlocks and returns.  heap holds the      *)
(* concreteLogger objects made by NewLogger, nil being address 0.          *)

MaxCalls == 2

\* the first load of done in Once.Do: whether the slow path is taken
Once_Do(done) == done = 0

Once_doSlow_Always(done) == TRUE

\* the second load of done, under the mutex: whether f is run
Once_doSlow(done) == done = 0

\* NewLogger(): the object new(concreteLogger) with output os.Stdout
NewLogger == [output |-> "stdout"]

InitDefault ==
    /\ InitState
    /\ last = NoCall
    /\ heap = << >>
    /\ adds = << >>
    /\ pc = [g \in Goroutines |-> "idle"]
    /\ local = [g \in Goroutines |->
                    [calls |-> 0, ret |-> 0, rets |-> {}, seen |-> "", installed |-> ""]]

\* goroutine g calls DefaultLogger()
CallDefaultLogger(g) ==
    /\ pc[g] = "idle"
    /\ local[g].calls < MaxCalls
    /\ local' = [local EXCEPT ![g].calls = @ + 1]
    /\ pc' = [pc EXCEPT ![g] = "Do"]
    /\ UNCHANGED <<defaultLogger, minPriority, NoColor, output, sinks, bufLen, last, heap, adds>>

\* Once.Do: if o.done.Load() == 0 { o.doSlow(f) }
OnceDo(g) ==
    /\ pc[g] = "Do"
    /\ pc' = [pc EXCEPT ![g] = IF Once_Do(defaultLogger.done) THEN "Lock" ELSE "return"]
    /\ UNCHANGED <<defaultLogger, minPriority, NoColor, output, sinks, bufLen, last, heap, adds, local>>

\* Once.doSlow: o.m.Lock()
OnceLock(g) ==
    /\ pc[g] = "Lock"
    /\ defaultLogger.m = 0
    /\ defaultLogger' = [defaultLogger EXCEPT !.m = g]
    /\ pc' = [pc EXCEPT ![g] = "doSlow"]
    /\ UNCHANGED <<minPriority, NoColor, output, sinks, bufLen, last, heap, adds, local>>

\* Once.doSlow: if o.done.Load() == 0 { defer o.done.Store(1); f() }
OnceDoSlow(g) ==
    /\ pc[g] = "doSlow"
    /\ pc' = [pc EXCEPT ![g] = IF Once_doSlow(defaultLogger.done) THEN "f" ELSE "Unlock"]
    /\ UNCHANGED <<defaultLogger, minPriority, NoColor, output, sinks, bufLen, last, heap, adds, local>>

\* f: defaultLogger.value, err = NewLogger(); err is nil
OnceF(g) ==
    /\ pc[g] = "f"
    /\ heap' = Append(heap, NewLogger)
    /\ defaultLogger' = [defaultLogger EXCEPT !.value = Len(heap) + 1]
    /\ pc' = [pc EXCEPT ![g] = "Store"]
    /\ UNCHANGED <<minPriority, NoColor, output, sinks, bufLen, last, adds, local>>

\* the deferred o.done.Store(1)
OnceStore(g) ==
    /\ pc[g] = "Store"
    /\ defaultLogger' = [defaultLogger EXCEPT !.done = 1]
    /\ pc' = [pc EXCEPT ![g] = "Unlock"]
    /\ UNCHANGED <<minPriority, NoColor, output, sinks, bufLen, last, heap, adds, local>>

\* the deferred o.m.Unlock()
OnceUnlock(g) ==
    /\ pc[g] = "Unlock"
    /\ defaultLogger' = [defaultLogger EXCEPT !.m = 0]
    /\ pc' = [pc EXCEPT ![g] = "return"]
    /\ UNCHANGED <<minPriority, NoColor, output, sinks, bufLen, last, heap, adds, local>>

\* return defaultLogger.value; the caller looks at the sink of what it got.
\* last.sink is the writer the latest SetOutput installed.
ReturnDefaultLogger(g) ==
    /\ pc[g] = "return"
    /\ local' = [local EXCEPT
                    ![g].ret = defaultLogger.value,
                    ![g].rets = @ \cup {defaultLogger.value},
                    ![g].seen = IF defaultLogger.value = 0 THEN "nil"
                                ELSE heap[defaultLogger.value].output,
                    ![g].installed = last.sink]
    /\ last' = [last EXCEPT !.op = "DefaultLogger", !.retAddr = defaultLogger.value]
    /\ pc' = [pc EXCEPT ![g] = "idle"]
    /\ UNCHANGED <<defaultLogger, minPriority, NoColor, output, sinks, bufLen, heap, adds>>

\* goroutine g calls SetOutput(w) on the logger DefaultLogger returned to it
SetOutputOnDefault(g, w) ==
    /\ pc[g] = "idle"
    /\ local[g].ret # 0
    /\ heap' = [heap EXCEPT ![local[g].ret].output = w]
    /\ last' = [last EXCEPT !.op = "SetOutput", !.sink = w]
    /\ UNCHANGED <<defaultLogger, minPriority, NoColor, output, sinks, bufLen, adds, pc, local>>

NextDefault ==
    \E g \in Goroutines :
        \/ CallDefaultLogger(g)
        \/ OnceDo(g)
        \/ OnceLock(g)
        \/ OnceDoSlow(g)
        \/ OnceF(g)
        \/ OnceStore(g)
        \/ OnceUnlock(g)
        \/ ReturnDefaultLogger(g)
        \/ \E w \in SinkIds : SetOutputOnDefault(g, w)

SpecDefault == InitDefault /\ [][NextDefault]_vars

\* C11: NewLogger is run at most once for the default logger; every call of
\* DefaultLogger returns that one object, never nil; and the sink a call's
\* result has is the one the latest SetOutput before the return installed.
C11_DefaultLoggerOnce ==
    /\ Len(heap) <= 1
    /\ \A g \in Goroutines :
          /\ local[g].rets \subseteq {1}
          /\ local[g].calls > 0 /\ pc[g] = "idle" =>
                /\ local[g].ret = 1
                /\ Len(heap) = 1
                /\ local[g].seen = (IF local[g].installed = "" THEN "stdout"
                                    ELSE local[g].installed)

\* DefaultLogger has returned to both goroutines, a SetOutput("buffer") was
\* made on the result, and a later call of DefaultLogger has returned
C11_Witness ==
    /\ \A g \in Goroutines : local[g].calls > 0 /\ pc[g] = "idle"
    /\ \E g \in Goroutines : local[g].calls = MaxCalls /\ local[g].installed = "buffer"
                             /\ local[g].seen = "buffer"
    /\ last.op = "DefaultLogger"

-----------------------------------------------------------------------------
(* NewField as a function of its flat argument list.                       *)

MaxFlat == 5

\* the arguments: a string key, an int, and the string that is the int's text
FlatValues == {StrV("k1"), IntV("10"), StrV("10")}

InitNewField ==
    /\ InitState
    /\ heap = << >>
    /\ adds = << >>
    /\ pc = << >>
    /\ local = << >>
    /\ \E values \in SeqsUpTo(FlatValues, MaxFlat) :
            last = [NoCall EXCEPT !.op = "input", !.args = values]

\* f := NewField(values...); f.Sprint()
CallNewField ==
    /\ last.op = "input"
    /\ heap' = <<NewField(last.args)>>
    /\ adds' = <<PairsOf(last.args)>>
    /\ last' = [last EXCEPT !.op = "NewField", !.retAddr = 1,
                            !.tokens = Field_Sprint(NewField(last.args))]
    /\ UNCHANGED <<defaultLogger, minPriority, NoColor, output, sinks, bufLen, pc, local>>

NextNewField == CallNewField

SpecNewField == InitNewField /\ [][NextNewField]_vars

\* C12: NewField of n arguments returns a Field made of the floor(n/2)
\* leading (key, value) pairs in order, a key being the text of the
\* argument, a pair whose key came earlier changing nothing; the last
\* argument of an odd list adds no key and no token.
C12_NewFieldPairs ==
    last.op = "NewField" =>
        LET n == Len(last.args)
            fld == heap[last.retAddr]
            fp == FirstPairs(SubSeq(adds[last.retAddr], 1, n \div 2))
        IN  /\ Len(adds[last.retAddr]) = n \div 2
            /\ fld.keys = [i \in 1..Len(fp) |-> fp[i].key]
            /\ Len(fld.values) = Len(fp)
            /\ \A i \in 1..Len(fp) : MapGet(fld.values, fp[i].key) = fp[i].value
            /\ last.tokens = [i \in 1..Len(fp) |-> GoString(Token(fp[i].key, fp[i].value))]
            /\ Len(last.tokens) <= n \div 2

\* NewField(10, "k1", "10", 10, "k1"): an int key, the same key again as a
\* string with another value, and a last key without a value
C12_Witness ==
    /\ last.op = "NewField"
    /\ last.args = <<IntV("10"), StrV("k1"), StrV("10"), IntV("10"), StrV("k1")>>
    /\ heap[1].keys = << <<"10">> >>
    /\ Len(last.tokens) = 1

-----------------------------------------------------------------------------
(* One logging call, step by step.  A depth method's body is the one       *)
(* statement printf(logger.output, depth, level, sprint(v...)): Go         *)
(* evaluates the argument sprint(v...) (sprintf(format, v...) in the       *)
(* formatted methods) before it enters printf, whose first statement is    *)
(* the test of the priority against minPriority.                           *)

StepArgs == {<< >>, <<Msg0>>, <<Msg0, Ptr(Field1)>>}

\* the locals of goroutine 1 when it is in no call
NoLocals ==
    [method |-> "", args |-> << >>, msg |-> << >>, composed |-> FALSE, checked |-> FALSE]

InitSteps ==
    /\ InitState
    /\ last = NoCall
    /\ heap = << >>
    /\ adds = << >>
    /\ pc = <<"idle">>
    /\ local = <<NoLocals>>

\* SetMinLevel(name), between two calls
StepSetMinLevel(name) ==
    /\ pc[1] = "idle"
    /\ DoSetMinLevel(name)

\* the caller calls method m with the arguments v
StepCall(m, v) ==
    /\ pc[1] = "idle"
    /\ pc' = <<"compose">>
    /\ local' = <<[NoLocals EXCEPT !.method = m, !.args = v]>>
    /\ UNCHANGED <<defaultLogger, minPriority, NoColor, output, sinks, bufLen, last, heap, adds>>

\* the argument of printf is evaluated: sprint(v...) or sprintf(format, v...)
StepCompose ==
    /\ pc[1] = "compose"
    /\ pc' = <<"printf">>
    /\ local' = <<[local[1] EXCEPT
                     !.msg = IF local[1].method \in FormatMethods \cup DepthFormatMethods
                             THEN sprintf(Format0, local[1].args)
                             ELSE sprint(local[1].args),
                     !.composed = TRUE]>>
    /\ UNCHANGED <<defaultLogger, minPriority, NoColor, output, sinks, bufLen, last, heap, adds>>

\* printf: if level.priority < minPriority { return }
StepCheck ==
    /\ pc[1] = "printf"
    /\ IF LevelOf(local[1].method).priority < minPriority
       THEN /\ pc' = <<"idle">>
            /\ local' = local
       ELSE /\ pc' = <<"Fprintf">>
            /\ local' = <<[local[1] EXCEPT !.checked = TRUE]>>
    /\ UNCHANGED <<defaultLogger, minPriority, NoColor, output, sinks, bufLen, last, heap, adds>>

\* the Write calls writes of the call in progress reach the output
StepWritten(writes) ==
    /\ sinks' = [sinks EXCEPT ![output] = @ \o Concat(writes)]
    /\ bufLen' = [bufLen EXCEPT ![output] = @ + Len(Concat(writes))]
    /\ last' = [Called("log") EXCEPT !.method = local[1].method, !.args = local[1].args,
                                   !.before = sinks[output], !.writes = writes]

\* printf: the rest, down to the Fprintf of the line
StepFprintf ==
    /\ pc[1] = "Fprintf"
    /\ StepWritten(Invoke(local[1].method, 2, Format0, local[1].args, UserStack(1), 1))
    /\ pc' = <<"idle">>
    /\ UNCHANGED <<defaultLogger, minPriority, NoColor, output, heap, adds, local>>

NextSteps ==
    \/ \E name \in LevelNames : StepSetMinLevel(name)
    \/ /\ HasRoom(MaxLines)
       /\ \E m \in Methods, v \in StepArgs : StepCall(m, v)
    \/ StepCompose
    \/ StepCheck
    \/ StepFprintf

SpecSteps == InitSteps /\ [][NextSteps]_vars

\* C13: the message of a call is composed only after the call's priority
\* was tested against the threshold and found permitted; a call below the
\* threshold composes nothing.
C13_CheckBeforeCompose ==
    (pc[1] # "idle" /\ local[1].composed) =>
        /\ local[1].checked
        /\ LevelOf(local[1].method).priority >= minPriority
=============================================================================
